---- MODULE Spec2Model ----
(***************************************************************************)
(* Debate orchestration of vitjuli/cambridge-dis-hackathon.                *)
(*                                                                         *)
(* Three programs drive a debate over one (claim, truth) pair:             *)
(*   "kepler"  kepler/agents.py         DebateOrchestrator.run_full_debate *)
(*             (round 1, num_rounds - 1 counter rounds, Jury Foreman)      *)
(*   "julia"   julia_changes/agents.py  DebateOrchestrator.run_full_debate *)
(*             (Prosecutor, Defense, Epistemologist, Jury Foreman)         *)
(*   "engine"  julia_changes/debate_engine.py  DebateEngine.run_debate     *)
(*             (round 1 stances, round 2 cross-examination, moderator)     *)
(* One behaviour of Spec is one run of one of them.  Every call of the      *)
(* language model service is one step; its reply is chosen from a small    *)
(* set.  One behaviour of SpecShared is the use of one DebateOrchestrator  *)
(* of kepler/agents.py by two callers: self.debate_history is then a       *)
(* reference to a list object that the runs and their results share.       *)
(*                                                                         *)
(* JSON numbers are confidences in tenths: 5 is 0.5, 15 is 1.5.            *)
(***************************************************************************)
EXTENDS Integers, Sequences, FiniteSets, TLC

VARIABLES
    sys,              \* which program runs
    pc,               \* position of the run in its code
    error,            \* the exception that ended the run, "none" otherwise
    num_rounds_arg,   \* run_full_debate's num_rounds argument: <<>> is None
    num_rounds,       \* the local num_rounds after lines 316-317
    round_num,        \* the round the run is in
    debate_history,   \* self.debate_history
    prosecution,      \* local dict, <<>> while unassigned
    defense,          \* local dict, <<>> while unassigned
    epistemology,     \* local dict, <<>> while unassigned
    result,           \* the returned DebateResult / DebateTranscript, <<>> if none
    idx,              \* DebateEngine: index into self.agents of the for loop
    stances,          \* DebateEngine: list of InitialStance
    exchanges,        \* DebateEngine: list of CrossExamResponse
    calls,            \* the requests the service received, in order
    verdict_reply,    \* the synthesizer's decoded reply, <<>> while unassigned
    schedule,         \* SpecShared: how the callers use the one orchestrator
    lists,            \* SpecShared: the list objects created, by reference
    history_ref,      \* SpecShared: self.debate_history, a reference into lists
    runs,             \* SpecShared: each caller's run_full_debate
    direct,           \* SpecShared: calls of run_prosecution etc. made directly
    program,          \* SpecDriver: the script that runs
    opt_all,          \* SpecDriver: the --all option
    data_len,         \* SpecDriver: len(data), the cases loaded
    selected,         \* SpecDriver: selected_indices / case_indices, <<>> at first
    outputs,          \* SpecDriver: results / transcripts, one per debate run
    saved,            \* SpecDriver: the file save_all_transcripts wrote, <<>> if none
    dpc               \* SpecDriver: position of the script

\* the state of one run
single == <<sys, pc, error, num_rounds_arg, num_rounds, round_num, debate_history,
            prosecution, defense, epistemology, result, idx, stances, exchanges,
            calls, verdict_reply>>

\* the state of an orchestrator shared by two callers
shared == <<schedule, lists, history_ref, runs, direct>>

\* the state of a command-line script
driver == <<program, opt_all, data_len, selected, outputs, saved, dpc>>

\* no script runs
DriverUnused ==
    /\ program = "none"
    /\ opt_all = FALSE
    /\ data_len = 0
    /\ selected = <<>>
    /\ outputs = <<>>
    /\ saved = <<>>
    /\ dpc = "none"

vars == <<single, shared, driver>>

----------------------------------------------------------------------------
(* Bounds of the model *)

\* largest num_rounds a caller passes explicitly (the smallest is -1)
MaxRounds == 3

\* largest num_rounds of the runs of two threads, or of a run that direct
\* calls follow
MaxSharedRounds == 1

\* most calls of the role methods a caller makes itself
MaxDirect == 2

\* most cases the data file of main.py holds
MaxCases == 21

\* most cases the data file of run_debate.py holds
MaxTranscripts == 3

----------------------------------------------------------------------------
(* Program constants *)

\* random.randint(2, 4), both ends included
RandLo == 2
RandHi == 4

\* main.py --all: cases = list(range(20))
AllRange == 20

Orchestrators == {"kepler", "julia"}
Systems == Orchestrators \cup {"engine"}

\* class Verdict, kepler/agents.py
Verdict == {"faithful", "mutated", "ambiguous"}
\* class VerdictType, julia_changes/debate_engine.py
VerdictType == {"faithful", "mutated", "uncertain"}

\* agents without the third role
agents_Two == <<"FACT_CHECKER", "SKEPTIC">>

\* DebateEngine.agents
agents == <<"FACT_CHECKER", "SKEPTIC", "CONTEXTUALIST">>

----------------------------------------------------------------------------
(* JSON values *)

\* a JSON number, in tenths
JNum(n) == [kind |-> "number", tenths |-> n]
\* a JSON string where a number is expected
JStr == [kind |-> "string", tenths |-> 0]
\* the JSON null in a string position
JsonNull == "<null>"

\* dict.get(key, default)
Get(d, key, default) == IF key \in DOMAIN d THEN d[key] ELSE default

\* str.lower() on the verdict strings the replies carry
Lower(s) ==
    CASE s = "FAITHFUL" -> "faithful"
      [] s = "MUTATED" -> "mutated"
      [] s = "AMBIGUOUS" -> "ambiguous"
      [] OTHER -> s

\* format(x, ".0%") succeeds on numbers only
Formattable(x) == x.kind = "number"

\* text the service returns that json.loads rejects
Garbage == [raw |-> "not json"]
Decodable(content) == "raw" \notin DOMAIN content

GatewayOutcomes == {"ok", "undecodable", "api_error"}

ErrorOf(o) ==
    CASE o = "undecodable" -> "JSONDecodeError"
      [] o = "api_error" -> "APIError"
      [] OTHER -> "none"

----------------------------------------------------------------------------
(* Replies of the service.  "id" names the reply by the call that produced *)
(* it, so that a later prompt can be seen to embed it.                     *)

AnalyticConfidence == {JNum(5), JNum(15)}

ProsecutorReplies(r) ==
    {[id |-> <<"Prosecutor", r>>, confidence |-> c] : c \in AnalyticConfidence}

DefenseReplies(r) ==
    {[id |-> <<"Defense", r>>, confidence |-> c] : c \in AnalyticConfidence}

EpistemologistReplies(r) ==
    {[id |-> <<"Epistemologist", r>>]}
    \cup {[id |-> <<"Epistemologist", r>>,
           recommended_confidence_range |-> <<JNum(3), JNum(15)>>]}

JuryForemanReplies(r) ==
    LET me == <<"Jury Foreman", r>> IN
    { [id |-> me],
      [id |-> me, verdict |-> "faithful"],
      [id |-> me, confidence |-> JNum(15)],
      [id |-> me, verdict |-> "faithful", confidence |-> JNum(5)],
      [id |-> me, verdict |-> "MUTATED", confidence |-> JNum(15)],
      [id |-> me, verdict |-> "uncertain", confidence |-> JNum(5)],
      [id |-> me, verdict |-> JsonNull, confidence |-> JNum(5)],
      [id |-> me, verdict |-> "mutated", confidence |-> JStr] }

----------------------------------------------------------------------------
(* kepler/agents.py and julia_changes/agents.py: DebateOrchestrator *)

\* the dict a local variable holds
Val(v) == v[1]

\* call_agent with json.loads before the append
call_agent_DecodeFirst(agent_name, reads, o, content) ==
    /\ calls' = Append(calls, [agent |-> agent_name, round |-> round_num,
                               reads |-> reads, outcome |-> o])
    /\ debate_history' =
          IF o = "ok"
          THEN Append(debate_history, [agent |-> agent_name, response |-> content])
          ELSE debate_history

\* _call_agent: the request reaches the service; a reply is appended to
\* debate_history before json.loads decodes it
call_agent(agent_name, reads, o, content) ==
    /\ calls' = Append(calls, [agent |-> agent_name, round |-> round_num,
                               reads |-> reads, outcome |-> o])
    /\ debate_history' =
          CASE o = "ok" ->
                 Append(debate_history, [agent |-> agent_name, response |-> content])
            [] o = "undecodable" ->
                 Append(debate_history, [agent |-> agent_name, response |-> Garbage])
            [] OTHER -> debate_history

\* DrawRounds for an upper end taken as excluded
DrawRounds_Wide == RandLo..(RandHi + 1)

\* the values random.randint(2, 4) returns
DrawRounds == RandLo..RandHi

\* run_full_debate up to the first call: a fresh history and the round count
start_full_debate ==
    /\ sys \in Orchestrators
    /\ pc = "init"
    /\ debate_history' = <<>>
    /\ \E drawn \in DrawRounds :
          num_rounds' = IF sys = "kepler" /\ num_rounds_arg = <<>>
                        THEN drawn
                        ELSE IF sys = "kepler" THEN num_rounds_arg[1] ELSE 1
    /\ round_num' = 1
    /\ pc' = "prosecution"
    /\ UNCHANGED <<driver, shared, verdict_reply, sys, error, num_rounds_arg,
                   prosecution, defense, epistemology, result, idx, stances,
                   exchanges, calls>>

\* LoopContinues for range(2, num_rounds)
LoopContinues_OffByOne == sys = "kepler" /\ round_num + 1 < num_rounds

\* for round_num in range(2, num_rounds + 1): is there a next iteration
\* (julia_changes/agents.py has no loop)
LoopContinues == sys = "kepler" /\ round_num + 1 <= num_rounds

\* Successor with the Jury Foreman's call inside the loop body
Successor_JuryInLoop(p) ==
    CASE p = "prosecution" -> "defense"
      [] p = "defense" -> "epistemologist"
      [] p = "epistemologist" -> "jury_foreman"
      [] p = "prosecutor_counter" -> "defense_counter"
      [] p = "defense_counter" -> "epistemologist"
      [] OTHER -> IF round_num < num_rounds THEN "prosecutor_counter" ELSE "done"

\* the statement that follows each call in run_full_debate
Successor(p) ==
    CASE p = "prosecution" -> "defense"
      [] p = "defense" -> "epistemologist"
      [] p = "epistemologist" ->
             IF LoopContinues THEN "prosecutor_counter" ELSE "jury_foreman"
      [] p = "prosecutor_counter" -> "defense_counter"
      [] p = "defense_counter" -> "epistemologist"
      [] OTHER -> "done"

\* Proceed with the exception caught and the same call made again
Proceed_CallAgain(o) ==
    /\ pc' = IF o = "ok" THEN Successor(pc) ELSE pc
    /\ error' = ErrorOf(o)

\* a call returns to run_full_debate, or its exception ends the run
Proceed(o) ==
    /\ pc' = IF o = "ok" THEN Successor(pc) ELSE "failed"
    /\ error' = ErrorOf(o)

\* the earlier replies each prompt embeds
DefenseReads == {Val(prosecution).id}
EpistemologistReads == {Val(prosecution).id, Val(defense).id}
ProsecutorCounterReads ==
    {Val(prosecution).id, Val(defense).id, Val(epistemology).id}
\* DefenseCounterReads when the Prosecutor's reply of the round before is passed
DefenseCounterReads_Stale ==
    {<<"Prosecutor", round_num - 1>>, Val(defense).id, Val(epistemology).id}

DefenseCounterReads ==
    {Val(prosecution).id, Val(defense).id, Val(epistemology).id}
JuryForemanReads ==
    {Val(prosecution).id, Val(defense).id, Val(epistemology).id}

\* round 1: run_prosecution
run_prosecution ==
    /\ sys \in Orchestrators
    /\ pc = "prosecution"
    /\ \E o \in GatewayOutcomes : \E c \in ProsecutorReplies(round_num) :
          /\ call_agent("Prosecutor", {}, o, c)
          /\ prosecution' = IF o = "ok" THEN <<c>> ELSE prosecution
          /\ Proceed(o)
    /\ UNCHANGED <<driver, shared, verdict_reply, sys, num_rounds_arg,
                   num_rounds, round_num, defense, epistemology, result, idx,
                   stances, exchanges>>

\* round 1: run_defense(claim, truth, prosecution)
run_defense ==
    /\ sys \in Orchestrators
    /\ pc = "defense"
    /\ \E o \in GatewayOutcomes : \E c \in DefenseReplies(round_num) :
          /\ call_agent("Defense", DefenseReads, o, c)
          /\ defense' = IF o = "ok" THEN <<c>> ELSE defense
          /\ Proceed(o)
    /\ UNCHANGED <<driver, shared, verdict_reply, sys, num_rounds_arg,
                   num_rounds, round_num, prosecution, epistemology, result,
                   idx, stances, exchanges>>

\* run_epistemologist(claim, truth, prosecution, defense), in round 1 and at
\* the end of every counter round, then the loop test
run_epistemologist ==
    /\ sys \in Orchestrators
    /\ pc = "epistemologist"
    /\ \E o \in GatewayOutcomes : \E c \in EpistemologistReplies(round_num) :
          /\ call_agent("Epistemologist", EpistemologistReads, o, c)
          /\ epistemology' = IF o = "ok" THEN <<c>> ELSE epistemology
          /\ Proceed(o)
          /\ round_num' = IF o = "ok" /\ Successor(pc) = "prosecutor_counter"
                          THEN round_num + 1 ELSE round_num
    /\ UNCHANGED <<driver, shared, verdict_reply, sys, num_rounds_arg,
                   num_rounds, prosecution, defense, result, idx, stances,
                   exchanges>>

\* _prosecutor_counter_response(claim, truth, prosecution, defense, epistemology)
prosecutor_counter_response ==
    /\ sys = "kepler"
    /\ pc = "prosecutor_counter"
    /\ \E o \in GatewayOutcomes : \E c \in ProsecutorReplies(round_num) :
          /\ call_agent("Prosecutor (Counter)", ProsecutorCounterReads, o, c)
          /\ prosecution' = IF o = "ok" THEN <<c>> ELSE prosecution
          /\ Proceed(o)
    /\ UNCHANGED <<driver, shared, verdict_reply, sys, num_rounds_arg,
                   num_rounds, round_num, defense, epistemology, result, idx,
                   stances, exchanges>>

\* _defense_counter_response(claim, truth, prosecution, defense, epistemology):
\* prosecution is already this round's
defense_counter_response ==
    /\ sys = "kepler"
    /\ pc = "defense_counter"
    /\ \E o \in GatewayOutcomes : \E c \in DefenseReplies(round_num) :
          /\ call_agent("Defense (Counter)", DefenseCounterReads, o, c)
          /\ defense' = IF o = "ok" THEN <<c>> ELSE defense
          /\ Proceed(o)
    /\ UNCHANGED <<driver, shared, verdict_reply, sys, num_rounds_arg,
                   num_rounds, round_num, prosecution, epistemology, result,
                   idx, stances, exchanges>>

\* ParseVerdict with the first label as the fallback
ParseVerdict_FallbackFaithful(verdict_response) ==
    LET verdict_str == Lower(Get(verdict_response, "verdict", "faithful"))
    IN  IF verdict_str = "mutated" THEN "mutated"
        ELSE IF verdict_str = "ambiguous" THEN "ambiguous"
        ELSE "faithful"

\* lines 357-363: the verdict of the Jury Foreman's reply as a Verdict
ParseVerdict(verdict_response) ==
    LET verdict_str == Lower(Get(verdict_response, "verdict", "ambiguous"))
    IN  IF verdict_str = "faithful" THEN "faithful"
        ELSE IF verdict_str = "mutated" THEN "mutated"
        ELSE "ambiguous"

\* ProsecutorResponse built from the Prosecutor's round-1 reply
ProsecutorResponse_FirstRound(d) ==
    [agent_name |-> "Prosecutor", source |-> <<d.id[1], 1>>,
     confidence |-> Get(d, "confidence", JNum(0))]

\* lines 374-392: AgentResponse of each analytic role; "source" is the reply
\* its arguments and evidence are taken from
ProsecutorResponse(d) ==
    [agent_name |-> "Prosecutor", source |-> d.id,
     confidence |-> Get(d, "confidence", JNum(0))]

DefenseResponse(d) ==
    [agent_name |-> "Defense", source |-> d.id,
     confidence |-> Get(d, "confidence", JNum(0))]

EpistemologistResponse(d) ==
    [agent_name |-> "Epistemologist", source |-> d.id,
     confidence |-> Get(d, "recommended_confidence_range",
                        <<JNum(5), JNum(5)>>)[2]]

\* lines 371-397: the DebateResult
BuildResult(verdict_response, history) ==
    [prosecutor_response |-> ProsecutorResponse(Val(prosecution)),
     defense_response |-> DefenseResponse(Val(defense)),
     epistemologist_response |-> EpistemologistResponse(Val(epistemology)),
     final_verdict |-> ParseVerdict(verdict_response),
     confidence |-> Get(verdict_response, "confidence", JNum(0)),
     debate_transcript |-> history]

\* what lines 356-369 raise on a decoded reply: .lower() on a non-string,
\* the ":.0%" format on a non-number
VerdictError(verdict_response) ==
    IF Get(verdict_response, "verdict", "ambiguous") = JsonNull
    THEN "AttributeError"
    ELSE IF ~Formattable(Get(verdict_response, "confidence", JNum(0)))
    THEN "ValueError"
    ELSE "none"

\* run_jury_foreman, then the verdict is parsed and the result returned
run_jury_foreman ==
    /\ sys \in Orchestrators
    /\ pc = "jury_foreman"
    /\ \E o \in GatewayOutcomes : \E c \in JuryForemanReplies(round_num + 1) :
          /\ call_agent("Jury Foreman", JuryForemanReads, o, c)
          /\ verdict_reply' = IF o = "ok" THEN <<c>> ELSE verdict_reply
          /\ IF o = "ok" /\ VerdictError(c) = "none"
             THEN /\ pc' = Successor(pc)
                  /\ result' = IF pc' = "done"
                               THEN <<BuildResult(c, debate_history')>>
                               ELSE result
                  /\ error' = "none"
             ELSE /\ result' = result
                  /\ pc' = "failed"
                  /\ error' = IF o = "ok" THEN VerdictError(c) ELSE ErrorOf(o)
    /\ UNCHANGED <<driver, shared, sys, num_rounds_arg, num_rounds, round_num,
                   prosecution, defense, epistemology, idx, stances,
                   exchanges>>

----------------------------------------------------------------------------
(* julia_changes/debate_engine.py: DebateEngine *)

\* the ids the round-1 prompts ask each agent to give its arguments
ArgIds(agent) ==
    CASE agent = "FACT_CHECKER" -> <<"FC1", "FC2">>
      [] agent = "SKEPTIC" -> <<"SK1", "SK2">>
      [] OTHER -> <<"CX1", "CX2">>

Round1Replies(agent) ==
    LET me == <<agent, 1>> IN
    { [id |-> me, verdict |-> "faithful", confidence |-> JNum(5),
       arguments |-> <<[id |-> ArgIds(agent)[1]]>>, reasoning_summary |-> "s"],
      [id |-> me, verdict |-> "mutated", confidence |-> JNum(15),
       arguments |-> <<[id |-> ArgIds(agent)[1]], [id |-> ArgIds(agent)[2]]>>,
       reasoning_summary |-> "s"],
      [id |-> me, verdict |-> "ambiguous", confidence |-> JNum(5),
       arguments |-> <<>>, reasoning_summary |-> "s"],
      [id |-> me, verdict |-> "uncertain", arguments |-> <<>>,
       reasoning_summary |-> "s"] }

\* some other agent, as the target of a cross-examination response
OtherAgent(agent) == IF agent = "SKEPTIC" THEN "FACT_CHECKER" ELSE "SKEPTIC"

Round2Replies(agent) ==
    LET me == <<agent, 2>> IN
    { [id |-> me, responses |-> <<>>, updated_confidence |-> JNum(5)],
      [id |-> me,
       responses |-> <<[target_agent |-> OtherAgent(agent),
                        target_argument_id |-> ArgIds(OtherAgent(agent))[1],
                        action |-> "attack"]>>,
       updated_confidence |-> JNum(15)],
      [id |-> me,
       responses |-> <<[target_agent |-> OtherAgent(agent),
                        target_argument_id |-> ArgIds(OtherAgent(agent))[1],
                        action |-> "defend"]>>,
       updated_confidence |-> JNum(5)],
      [id |-> me,
       responses |-> <<[target_agent |-> OtherAgent(agent),
                        target_argument_id |-> "ZZ9",
                        action |-> "concede"]>>,
       updated_confidence |-> JNum(5), stance_changed |-> TRUE,
       new_verdict |-> "mutated"],
      [id |-> me, responses |-> <<>>] }

Round3Replies ==
    LET me == <<"MODERATOR", 3>> IN
    {[id |-> me, final_verdict |-> v, confidence |-> c] :
         v \in VerdictType \cup {"ambiguous"}, c \in {JNum(5), JNum(15), JStr}}
    \cup {[id |-> me, final_verdict |-> "faithful"]}
    \cup {[id |-> me, confidence |-> JNum(5)]}

\* _call_llm: the request reaches the service; context is what the formatted
\* prompt holds of the records of the debate
call_llm(agent_name, reads, context, o) ==
    calls' = Append(calls, [agent |-> agent_name, round |-> round_num,
                            reads |-> reads, context |-> context,
                            outcome |-> o])

\* run_debate up to _run_round1's loop
run_debate_start ==
    /\ sys = "engine"
    /\ pc = "init"
    /\ pc' = "round1"
    /\ round_num' = 1
    /\ idx' = 1
    /\ stances' = <<>>
    /\ UNCHANGED <<driver, shared, verdict_reply, sys, error, num_rounds_arg,
                   num_rounds, debate_history, prosecution, defense,
                   epistemology, result, exchanges, calls>>

\* what lines 433-448 raise on a decoded round-1 reply
Round1Error(r) ==
    IF "verdict" \notin DOMAIN r THEN "KeyError"
    ELSE IF r.verdict \notin VerdictType THEN "ValueError"
    ELSE IF "confidence" \notin DOMAIN r THEN "KeyError"
    ELSE IF "arguments" \notin DOMAIN r THEN "KeyError"
    ELSE IF "reasoning_summary" \notin DOMAIN r THEN "KeyError"
    ELSE IF ~Formattable(r.confidence) THEN "ValueError"
    ELSE "none"

\* lines 433-446
InitialStance(agent, r) ==
    [agent |-> agent, verdict |-> r.verdict, confidence |-> r.confidence,
     arguments |-> r.arguments]

\* Round1Reads for a prompt that lists the stances given so far
Round1Reads_SeesEarlier == {<<stances[i].agent, 1>> : i \in 1..Len(stances)}

\* lines 419-427: user_prompt holds the claim and the truth, no earlier reply
Round1Reads == {}

\* one iteration of _run_round1's loop; after the last, _run_round2 begins
run_round1 ==
    /\ sys = "engine"
    /\ pc = "round1"
    /\ \E o \in GatewayOutcomes : \E r \in Round1Replies(agents[idx]) :
          /\ call_llm(agents[idx], Round1Reads, <<>>, o)
          /\ IF o = "ok" /\ Round1Error(r) = "none"
             THEN /\ stances' = Append(stances, InitialStance(agents[idx], r))
                  /\ error' = "none"
                  /\ IF idx < Len(agents)
                     THEN /\ idx' = idx + 1
                          /\ UNCHANGED <<pc, round_num, exchanges>>
                     ELSE /\ idx' = 1
                          /\ pc' = "round2"
                          /\ round_num' = 2
                          /\ exchanges' = <<>>
             ELSE /\ pc' = "failed"
                  /\ error' = IF o = "ok" THEN Round1Error(r) ELSE ErrorOf(o)
                  /\ UNCHANGED <<stances, idx, round_num, exchanges>>
    /\ UNCHANGED <<driver, shared, verdict_reply, sys, num_rounds_arg,
                   num_rounds, debate_history, prosecution, defense,
                   epistemology, result>>

\* what lines 490-505 raise on a decoded round-2 reply
Round2Error(r) ==
    IF "responses" \notin DOMAIN r THEN "KeyError"
    ELSE IF "updated_confidence" \notin DOMAIN r THEN "KeyError"
    ELSE IF Get(r, "stance_changed", FALSE) /\ "new_verdict" \notin DOMAIN r
    THEN "KeyError"
    ELSE IF ~Formattable(r.updated_confidence) THEN "ValueError"
    ELSE "none"

\* lines 491-498
CrossExamResponse(agent, resp, r) ==
    [agent |-> agent, target_agent |-> resp.target_agent,
     target_argument_id |-> resp.target_argument_id, action |-> resp.action,
     updated_confidence |-> r.updated_confidence]

\* Round2Reads for a prompt that also lists the exchanges stored so far
Round2Reads_SeesExchanges(agent) ==
    {<<stances[i].agent, 1>> : i \in 1..Len(stances)}
    \cup {<<exchanges[i].agent, 2>> : i \in 1..Len(exchanges)}

\* lines 459-480: the stances a round-2 prompt embeds, the agent's own and
\* the others'
Round2Reads(agent) ==
    {<<stances[i].agent, 1>> : i \in {j \in 1..Len(stances) : stances[j].agent = agent}}
    \cup
    {<<stances[i].agent, 1>> : i \in {j \in 1..Len(stances) : stances[j].agent # agent}}

\* lines 464-474: the stances the prompt is built from
OwnStance(agent) ==
    stances[CHOOSE i \in 1..Len(stances) : stances[i].agent = agent]

\* OtherStances without the filter on the agent
OtherStances_All(agent) == stances

\* line 465

OtherStances(agent) == SelectSeq(stances, LAMBDA s : s.agent # agent)

\* lines 466-480: own_stance and other_arguments of CROSS_EXAM_PROMPT
CrossExamPrompt(agent) ==
    [own_stance |-> [verdict |-> OwnStance(agent).verdict,
                     confidence |-> OwnStance(agent).confidence,
                     arguments |-> OwnStance(agent).arguments],
     other_arguments |->
        [k \in 1..Len(OtherStances(agent)) |->
            [agent |-> OtherStances(agent)[k].agent,
             verdict |-> OtherStances(agent)[k].verdict,
             arguments |-> OtherStances(agent)[k].arguments]]]

\* StancesAfterReply with a declared change applied to the agent's stance
StancesAfterReply_Applied(agent, r) ==
    [k \in 1..Len(stances) |->
        IF stances[k].agent = agent /\ Get(r, "stance_changed", FALSE)
        THEN [stances[k] EXCEPT !.verdict = r.new_verdict]
        ELSE stances[k]]

\* lines 501-505: stance_changed and new_verdict are printed; the list of
\* stances is the one _run_round1 returned
StancesAfterReply(agent, r) == stances

\* one iteration of _run_round2's loop; after the last, _run_round3 begins
run_round2 ==
    /\ sys = "engine"
    /\ pc = "round2"
    /\ \E o \in GatewayOutcomes : \E r \in Round2Replies(agents[idx]) :
          /\ call_llm(agents[idx], Round2Reads(agents[idx]),
                      CrossExamPrompt(agents[idx]), o)
          /\ IF o = "ok" /\ Round2Error(r) = "none"
             THEN /\ exchanges' = exchanges \o
                       [k \in 1..Len(r.responses) |->
                           CrossExamResponse(agents[idx], r.responses[k], r)]
                  /\ stances' = StancesAfterReply(agents[idx], r)
                  /\ error' = "none"
                  /\ IF idx < Len(agents)
                     THEN /\ idx' = idx + 1
                          /\ UNCHANGED <<pc, round_num>>
                     ELSE /\ idx' = 1
                          /\ pc' = "round3"
                          /\ round_num' = 3
             ELSE /\ pc' = "failed"
                  /\ error' = IF o = "ok" THEN Round2Error(r) ELSE ErrorOf(o)
                  /\ UNCHANGED <<exchanges, idx, round_num, stances>>
    /\ UNCHANGED <<driver, shared, verdict_reply, sys, num_rounds_arg,
                   num_rounds, debate_history, prosecution, defense,
                   epistemology, result>>

\* Round3Error with final_verdict kept as the string it is
Round3Error_AnyVerdict(r) ==
    IF "final_verdict" \notin DOMAIN r THEN "KeyError"
    ELSE IF "confidence" \notin DOMAIN r THEN "KeyError"
    ELSE IF ~Formattable(r.confidence) THEN "ValueError"
    ELSE "none"

\* what lines 536-546 raise on a decoded moderator reply
Round3Error(r) ==
    IF "final_verdict" \notin DOMAIN r THEN "KeyError"
    ELSE IF r.final_verdict \notin VerdictType THEN "ValueError"
    ELSE IF "confidence" \notin DOMAIN r THEN "KeyError"
    ELSE IF ~Formattable(r.confidence) THEN "ValueError"
    ELSE "none"

\* ConsensusResult with the verdict taken from the first round-1 stance
ConsensusResult_FirstStance(r) ==
    [final_verdict |-> stances[1].verdict, confidence |-> r.confidence]

\* lines 536-543
ConsensusResult(r) ==
    [final_verdict |-> r.final_verdict, confidence |-> r.confidence]

\* lines 515-532: the records the moderator's prompt embeds
Round3Reads ==
    {<<stances[i].agent, 1>> : i \in 1..Len(stances)}
    \cup {<<exchanges[i].agent, 2>> : i \in 1..Len(exchanges)}

\* lines 515-524: round1_summary and round2_summary of MODERATOR_R3
ModeratorPrompt ==
    [round1_summary |->
        [k \in 1..Len(stances) |->
            [agent |-> stances[k].agent, verdict |-> stances[k].verdict,
             confidence |-> stances[k].confidence,
             arguments |-> stances[k].arguments]],
     round2_summary |->
        [k \in 1..Len(exchanges) |->
            [agent |-> exchanges[k].agent, action |-> exchanges[k].action,
             target_agent |-> exchanges[k].target_agent,
             target_argument_id |-> exchanges[k].target_argument_id]]]

\* lines 565-574
DebateTranscript(consensus) ==
    [round1_stances |-> stances, round2_exchanges |-> exchanges,
     round3_consensus |-> consensus]

\* _run_round3, then run_debate builds and returns the transcript
run_round3 ==
    /\ sys = "engine"
    /\ pc = "round3"
    /\ \E o \in GatewayOutcomes : \E r \in Round3Replies :
          /\ call_llm("MODERATOR", Round3Reads, ModeratorPrompt, o)
          /\ verdict_reply' = IF o = "ok" THEN <<r>> ELSE verdict_reply
          /\ IF o = "ok" /\ Round3Error(r) = "none"
             THEN /\ result' = <<DebateTranscript(ConsensusResult(r))>>
                  /\ pc' = "done"
                  /\ error' = "none"
             ELSE /\ result' = result
                  /\ pc' = "failed"
                  /\ error' = IF o = "ok" THEN Round3Error(r) ELSE ErrorOf(o)
    /\ UNCHANGED <<driver, shared, sys, num_rounds_arg, num_rounds, round_num,
                   debate_history, prosecution, defense, epistemology, idx,
                   stances, exchanges>>

----------------------------------------------------------------------------

Init ==
    /\ sys \in Systems
    /\ pc = "init"
    /\ error = "none"
    /\ num_rounds_arg \in
          IF sys = "kepler" THEN {<<>>} \cup {<<n>> : n \in (0 - 1)..MaxRounds}
                            ELSE {<<>>}
    /\ num_rounds = 0
    /\ round_num = 0
    /\ debate_history = <<>>
    /\ prosecution = <<>>
    /\ defense = <<>>
    /\ epistemology = <<>>
    /\ result = <<>>
    /\ idx = 0
    /\ stances = <<>>
    /\ exchanges = <<>>
    /\ calls = <<>>
    /\ verdict_reply = <<>>
    /\ schedule = "single"
    /\ lists = <<>>
    /\ history_ref = 0
    /\ runs = <<>>
    /\ direct = 0
    /\ DriverUnused

Next ==
    \/ start_full_debate
    \/ run_prosecution
    \/ run_defense
    \/ run_epistemologist
    \/ prosecutor_counter_response
    \/ defense_counter_response
    \/ run_jury_foreman
    \/ run_debate_start
    \/ run_round1
    \/ run_round2
    \/ run_round3

Spec == Init /\ [][Next]_vars

----------------------------------------------------------------------------
(* kepler/agents.py: one DebateOrchestrator used by two callers.           *)
(* self.debate_history refers to a list object; run_full_debate binds it   *)
(* to a new list, _call_agent appends to the list it refers to at that     *)
(* moment, and a DebateResult's debate_transcript is that same list.       *)

Callers == {1, 2}

\* how the callers use the orchestrator:
\*   "threads"  two threads call run_full_debate
\*   "batch"    one caller runs one debate after the other (compare_systems)
\*   "mixed"    one caller runs a debate, then calls the role methods itself
Schedules == {"threads", "batch", "mixed"}

\* the role methods a caller can call itself (demo.py)
RoleMethods == {"Prosecutor", "Defense", "Epistemologist", "Jury Foreman"}

\* NumRounds with the argument capped by a draw
NumRounds_DrawCaps(arg, drawn) ==
    IF arg = <<>> \/ drawn < arg[1] THEN drawn ELSE arg[1]

\* lines 316-317: the local num_rounds
NumRounds(arg, drawn) == IF arg = <<>> THEN drawn ELSE arg[1]

\* the number of calls run_full_debate makes with num_rounds = n
ScriptLen(n) == 3 * (IF n >= 1 THEN n ELSE 1) + 1

\* the round of the k-th call; the Jury Foreman's is the final round
ScriptRound(k) == ((k - 1) \div 3) + 1

\* the agent name of the k-th call of run_full_debate with num_rounds = n
ScriptAgent(n, k) ==
    IF k = ScriptLen(n) THEN "Jury Foreman"
    ELSE CASE (k - 1) % 3 = 0 ->
                 IF ScriptRound(k) = 1 THEN "Prosecutor" ELSE "Prosecutor (Counter)"
           [] (k - 1) % 3 = 1 ->
                 IF ScriptRound(k) = 1 THEN "Defense" ELSE "Defense (Counter)"
           [] OTHER -> "Epistemologist"

\* the record _call_agent appends for caller t's request; t = 0 is a direct
\* call.  The reply answers the prompt, which names the caller's claim.
HistoryRecord(t, agent_name, r, o) ==
    [agent |-> agent_name,
     response |-> IF o = "ok" THEN [id |-> <<agent_name, r>>, prompt_of |-> t]
                              ELSE Garbage]

\* which caller may take a step
Scheduled(t) ==
    \/ schedule = "threads"
    \/ /\ schedule = "batch"
       /\ \A u \in Callers \ {t} : runs[u].pc # "running"
       /\ t = 2 => runs[1].pc # "idle"
    \/ schedule = "mixed" /\ t = 1

\* run_full_debate up to the first call, by caller t: self.debate_history is
\* bound to a new list
full_debate_start(t) ==
    /\ runs[t].pc = "idle"
    /\ Scheduled(t)
    /\ lists' = Append(lists, <<>>)
    /\ history_ref' = Len(lists) + 1
    /\ \E drawn \in DrawRounds :
          runs' = [runs EXCEPT ![t].pc = "running",
                               ![t].num_rounds = NumRounds(runs[t].arg, drawn)]
    /\ UNCHANGED <<driver, single, schedule, direct>>

\* one call of run_full_debate by caller t, through _call_agent: the record
\* goes to the list self.debate_history refers to now; after the Jury
\* Foreman's call the DebateResult is built with debate_transcript bound to
\* that list
full_debate_call(t) ==
    /\ runs[t].pc = "running"
    /\ Scheduled(t)
    /\ \E o \in GatewayOutcomes :
          LET k == Len(runs[t].made) + 1
              agent_name == ScriptAgent(runs[t].num_rounds, k)
              last == k = ScriptLen(runs[t].num_rounds)
          IN  /\ lists' =
                    IF o = "api_error" THEN lists
                    ELSE [lists EXCEPT ![history_ref] =
                             Append(@, HistoryRecord(t, agent_name, ScriptRound(k), o))]
              /\ runs' = [runs EXCEPT
                    ![t].made = Append(@, [agent |-> agent_name,
                                           round |-> ScriptRound(k),
                                           outcome |-> o]),
                    ![t].pc = IF o # "ok" THEN "failed"
                              ELSE IF last THEN "done" ELSE "running",
                    ![t].result = IF o = "ok" /\ last
                                  THEN <<[debate_transcript |-> history_ref]>>
                                  ELSE @]
    /\ UNCHANGED <<driver, single, schedule, history_ref, direct>>

\* run_prosecution, run_defense, run_epistemologist or run_jury_foreman called
\* by the caller itself, outside run_full_debate
direct_call ==
    /\ schedule = "mixed"
    /\ runs[1].pc \in {"done", "failed"}
    /\ direct < MaxDirect
    /\ direct' = direct + 1
    /\ \E agent_name \in RoleMethods : \E o \in GatewayOutcomes :
          lists' = IF o = "api_error" THEN lists
                   ELSE [lists EXCEPT ![history_ref] =
                            Append(@, HistoryRecord(0, agent_name, 0, o))]
    /\ UNCHANGED <<driver, single, schedule, history_ref, runs>>

\* the arguments the callers pass
SharedArgs ==
    IF schedule = "batch"
    THEN {<<>>} \cup {<<n>> : n \in 1..MaxRounds}
    ELSE {<<n>> : n \in 1..MaxSharedRounds}

\* a run not yet started
IdleRun(arg) ==
    [pc |-> "idle", arg |-> arg, num_rounds |-> 0, made |-> <<>>, result |-> <<>>]

\* DebateOrchestrator.__init__ has bound self.debate_history to an empty list
InitShared ==
    /\ schedule \in Schedules
    /\ lists = << <<>> >>
    /\ history_ref = 1
    /\ \E a1, a2 \in SharedArgs : runs = <<IdleRun(a1), IdleRun(a2)>>
    /\ direct = 0
    /\ DriverUnused
    /\ sys = "kepler"
    /\ pc = "init"
    /\ error = "none"
    /\ num_rounds_arg = <<>>
    /\ num_rounds = 0
    /\ round_num = 0
    /\ debate_history = <<>>
    /\ prosecution = <<>>
    /\ defense = <<>>
    /\ epistemology = <<>>
    /\ result = <<>>
    /\ idx = 0
    /\ stances = <<>>
    /\ exchanges = <<>>
    /\ calls = <<>>
    /\ verdict_reply = <<>>

NextShared ==
    \/ \E t \in Callers : full_debate_start(t)
    \/ \E t \in Callers : full_debate_call(t)
    \/ direct_call

SpecShared == InitShared /\ [][NextShared]_vars

----------------------------------------------------------------------------
(* julia_changes/main.py and julia_changes/run_debate.py: the scripts that *)
(* load the cases, select some, run one debate per selected case and, in   *)
(* run_debate.py, write all transcripts to one file.  A debate is one step *)
(* here: it returns its result or raises.                                  *)

Programs == {"main.py", "run_debate.py"}

\* list(range(n))
Range(n) == [i \in 1..n |-> i - 1]

\* main.py: list(STRATEGIC_CASES.keys()); run_debate.py: STRATEGIC_CASES
StrategicCases(prog) ==
    IF prog = "main.py" THEN <<0, 1, 5, 7, 6>> ELSE <<0, 1, 5, 6, 7>>


\* the indices --all stands for: main.py line 275, run_debate.py line 87
AllCases(prog) == IF prog = "main.py" THEN Range(AllRange) ELSE Range(data_len)

\* [i for i in indices if i < len(data)]
ValidIndices(indices) == SelectSeq(indices, LAMBDA i : i < data_len)

\* the case selection of run_hackathon / main
select_cases ==
    /\ dpc = "select"
    /\ selected' = ValidIndices(IF opt_all THEN AllCases(program)
                                           ELSE StrategicCases(program))
    /\ dpc' = "debates"
    /\ UNCHANGED <<single, shared, program, opt_all, data_len, outputs, saved>>

\* one iteration of run_hackathon's loop: run_full_debate on the next case
run_hackathon_debate ==
    /\ program = "main.py"
    /\ dpc = "debates"
    /\ Len(outputs) < Len(selected)
    /\ \E raised \in BOOLEAN :
          IF raised
          THEN dpc' = "failed" /\ outputs' = outputs
          ELSE /\ dpc' = dpc
               /\ outputs' = Append(outputs, [id |-> selected[Len(outputs) + 1]])
    /\ UNCHANGED <<single, shared, program, opt_all, data_len, selected, saved>>

\* run_hackathon returns its results
run_hackathon_return ==
    /\ program = "main.py"
    /\ dpc = "debates"
    /\ Len(outputs) = Len(selected)
    /\ dpc' = "returned"
    /\ UNCHANGED <<single, shared, program, opt_all, data_len, selected,
                   outputs, saved>>

\* one iteration of the loop of run_debate.py: run_debate on the next case
\* returns a transcript, whose verdict is a VerdictType, or raises
main_debate ==
    /\ program = "run_debate.py"
    /\ dpc = "debates"
    /\ Len(outputs) < Len(selected)
    /\ \E raised \in BOOLEAN : \E v \in VerdictType :
          IF raised
          THEN dpc' = "failed" /\ outputs' = outputs
          ELSE /\ dpc' = dpc
               /\ outputs' =
                     Append(outputs,
                            [case_id |-> selected[Len(outputs) + 1],
                             round3_consensus |-> [final_verdict |-> v]])
    /\ UNCHANGED <<single, shared, program, opt_all, data_len, selected, saved>>

\* sum(1 for t in transcripts if t.round3_consensus.final_verdict == v)
CountVerdict(transcripts, v) ==
    Cardinality({k \in 1..Len(transcripts) :
                    transcripts[k].round3_consensus.final_verdict = v})

\* DebateTranscript.to_dict, the fields kept here
to_dict(t) ==
    [case_id |-> t.case_id, final_verdict |-> t.round3_consensus.final_verdict]

\* save_all_transcripts with the third count taken of kepler's "ambiguous"
save_all_transcripts_Ambiguous(transcripts) ==
    [total_cases |-> Len(transcripts),
     summary |-> [faithful |-> CountVerdict(transcripts, "faithful"),
                  mutated |-> CountVerdict(transcripts, "mutated"),
                  uncertain |-> CountVerdict(transcripts, "ambiguous")],
     debates |-> [k \in 1..Len(transcripts) |-> to_dict(transcripts[k])]]

\* save_all_transcripts: the data written to the file
save_all_transcripts(transcripts) ==
    [total_cases |-> Len(transcripts),
     summary |-> [faithful |-> CountVerdict(transcripts, "faithful"),
                  mutated |-> CountVerdict(transcripts, "mutated"),
                  uncertain |-> CountVerdict(transcripts, "uncertain")],
     debates |-> [k \in 1..Len(transcripts) |-> to_dict(transcripts[k])]]

\* run_debate.py after its loop: save_all_transcripts(transcripts, args.output)
main_save ==
    /\ program = "run_debate.py"
    /\ dpc = "debates"
    /\ Len(outputs) = Len(selected)
    /\ saved' = <<save_all_transcripts(outputs)>>
    /\ dpc' = "returned"
    /\ UNCHANGED <<single, shared, program, opt_all, data_len, selected,
                   outputs>>

\* no debate runs outside a script's loop
SingleUnused ==
    /\ sys = "kepler"
    /\ pc = "init"
    /\ error = "none"
    /\ num_rounds_arg = <<>>
    /\ num_rounds = 0
    /\ round_num = 0
    /\ debate_history = <<>>
    /\ prosecution = <<>>
    /\ defense = <<>>
    /\ epistemology = <<>>
    /\ result = <<>>
    /\ idx = 0
    /\ stances = <<>>
    /\ exchanges = <<>>
    /\ calls = <<>>
    /\ verdict_reply = <<>>

SharedUnused ==
    /\ schedule = "single"
    /\ lists = <<>>
    /\ history_ref = 0
    /\ runs = <<>>
    /\ direct = 0

\* the script has parsed its options and loaded the data file
InitDriver ==
    /\ program \in Programs
    /\ opt_all \in BOOLEAN
    /\ data_len \in 0..(IF program = "main.py" THEN MaxCases ELSE MaxTranscripts)
    /\ selected = <<>>
    /\ outputs = <<>>
    /\ saved = <<>>
    /\ dpc = "select"
    /\ SingleUnused
    /\ SharedUnused

NextDriver ==
    \/ select_cases
    \/ run_hackathon_debate
    \/ run_hackathon_return
    \/ main_debate
    \/ main_save

SpecDriver == InitDriver /\ [][NextDriver]_vars

----------------------------------------------------------------------------
(* Observations used by the properties *)

\* a confidence in [0,1]
InUnit(c) == c.kind = "number" /\ c.tenths \in 0..10

Returned == result # <<>>

FinalConfidence ==
    IF sys = "engine" THEN result[1].round3_consensus.confidence
                      ELSE result[1].confidence

FinalVerdict ==
    IF sys = "engine" THEN result[1].round3_consensus.final_verdict
                      ELSE result[1].final_verdict

\* the three-value verdict set of the program that runs
VerdictSet == IF sys = "engine" THEN VerdictType ELSE Verdict

\* the indices of the synthesizer's calls in the request log
SynthCalls ==
    {i \in 1..Len(calls) : calls[i].agent \in {"Jury Foreman", "MODERATOR"}}

\* the indices of the analytic roles' calls
AnalyticCalls == (1..Len(calls)) \ SynthCalls

\* the Jury Foreman's reply as debate_history holds it
JuryAnswered ==
    /\ sys \in Orchestrators
    /\ Len(debate_history) > 0
    /\ debate_history[Len(debate_history)].agent = "Jury Foreman"
    /\ Decodable(debate_history[Len(debate_history)].response)

JuryReply == debate_history[Len(debate_history)].response

----------------------------------------------------------------------------
(* C1..C10 *)

\* C1: every returned result has a final confidence in [0,1] and a final
\* verdict in the three-value verdict set (so a synthesizer reply with an
\* out-of-range confidence never ends in a returned result).
C1_ResultInRange ==
    Returned => InUnit(FinalConfidence) /\ FinalVerdict \in VerdictSet

\* C2: every confidence stored in a transcript record (round-1 stance,
\* cross-examination updated_confidence, per-role AgentResponse) is in [0,1].
C2_StoredConfidencesInRange ==
    /\ \A i \in 1..Len(stances) : InUnit(stances[i].confidence)
    /\ \A i \in 1..Len(exchanges) : InUnit(exchanges[i].updated_confidence)
    /\ (Returned /\ sys \in Orchestrators) =>
          /\ InUnit(result[1].prosecutor_response.confidence)
          /\ InUnit(result[1].defense_response.confidence)
          /\ InUnit(result[1].epistemologist_response.confidence)

\* C3 as claimed: run_full_debate returns a result only when the Jury
\* Foreman's reply carries a verdict of the declared set and a confidence; no
\* default is substituted.
C3_NoDefaultSubstituted ==
    (Returned /\ sys \in Orchestrators) =>
        /\ "verdict" \in DOMAIN JuryReply
        /\ "confidence" \in DOMAIN JuryReply
        /\ Lower(JuryReply.verdict) \in Verdict

\* C3 as amended: a decoded Jury Foreman reply with a well-typed verdict and
\* confidence (a string or none, a number or none) always yields a result;
\* the result's verdict is AMBIGUOUS when the reply has no verdict or one that
\* is neither faithful nor mutated in any letter case, and its confidence is 0
\* when the reply has none.  On account of that reply the run fails only
\* when it is not decodable, its verdict is not a string or its confidence is
\* not a number.
C3_DefaultsSubstituted ==
    (JuryAnswered /\ pc \in {"done", "failed"}) =>
        LET r == JuryReply
            typed == /\ ("verdict" \in DOMAIN r => r.verdict # JsonNull)
                     /\ ("confidence" \in DOMAIN r => r.confidence.kind = "number")
        IN  /\ typed <=> Returned
            /\ Returned =>
                 /\ ("verdict" \notin DOMAIN r => result[1].final_verdict = "ambiguous")
                 /\ ("verdict" \in DOMAIN r =>
                        result[1].final_verdict =
                            IF r.verdict \in {"faithful", "FAITHFUL"} THEN "faithful"
                            ELSE IF r.verdict \in {"mutated", "MUTATED"} THEN "mutated"
                            ELSE "ambiguous")
                 /\ ("confidence" \notin DOMAIN r => result[1].confidence = JNum(0))
                 /\ ("confidence" \in DOMAIN r => result[1].confidence = r.confidence)

\* C3 witness: a returned result whose Jury Foreman reply had neither a
\* verdict nor a confidence.
C3_Witness ==
    /\ Returned /\ JuryAnswered
    /\ DOMAIN JuryReply = {"id"}
    /\ result[1].final_verdict = "ambiguous"
    /\ result[1].confidence = JNum(0)

\* the role behind an agent name of the request log
RoleOf(agent_name) ==
    CASE agent_name = "Prosecutor (Counter)" -> "Prosecutor"
      [] agent_name = "Defense (Counter)" -> "Defense"
      [] OTHER -> agent_name

\* the reply a completed call produced
Produced(c) == <<RoleOf(c.agent), c.round>>

\* the analytic roles of the program that runs
AnalyticRoles ==
    IF sys = "engine" THEN {agents[k] : k \in 1..Len(agents)}
                      ELSE {"Prosecutor", "Defense", "Epistemologist"}

\* C4: the synthesizer is called at most once, its call is the last of the
\* request log, every call before it has completed, and by then every
\* analytic role has been called in every earlier round; a completed run has
\* exactly one synthesizer call.
C4_SynthesizerOnceAndLast ==
    /\ Cardinality(SynthCalls) <= 1
    /\ \A i \in SynthCalls :
          /\ i = Len(calls)
          /\ \A j \in 1..(i - 1) : calls[j].outcome = "ok"
          /\ \A r \in 1..(IF sys = "engine" THEN 2 ELSE calls[i].round) :
                \A role \in AnalyticRoles :
                    \E j \in 1..(i - 1) : Produced(calls[j]) = <<role, r>>
    /\ pc = "done" => Cardinality(SynthCalls) = 1

\* C4 witness: a completed run_full_debate of three rounds.
C4_Witness ==
    /\ pc = "done" /\ sys = "kepler"
    /\ Len(calls) = 10
    /\ calls[10].agent = "Jury Foreman"

\* the phase of the protocol the run is in
Phase ==
    CASE pc = "init" -> "INIT"
      [] pc = "done" -> "DONE"
      [] pc = "failed" -> "FAILED"
      [] pc \in {"prosecution", "defense", "round1"} -> "STANCE"
      [] pc = "epistemologist" -> IF round_num = 1 THEN "STANCE" ELSE "COUNTER"
      [] pc \in {"prosecutor_counter", "defense_counter"} -> "COUNTER"
      [] pc = "round2" -> "CROSS_EXAM"
      [] OTHER -> "SYNTHESIS"

\* a failing call ends the run in any phase
FailureSteps ==
    {<<ph, "FAILED">> : ph \in {"STANCE", "CROSS_EXAM", "COUNTER", "SYNTHESIS"}}

\* every call of a round is made, and has completed, before a later round's
CallsInRoundOrder ==
    \A j \in 1..Len(calls) : \A i \in 1..(j - 1) :
        /\ calls[i].outcome = "ok"
        /\ calls[i].round <= calls[j].round

\* C5 as claimed: the phases change only along INIT, STANCE, CROSS_EXAM,
\* zero or more COUNTER, SYNTHESIS, DONE, none skipped.
C5_PhaseOrder ==
    [][Phase' # Phase =>
          <<Phase, Phase'>> \in
              {<<"INIT", "STANCE">>, <<"STANCE", "CROSS_EXAM">>,
               <<"CROSS_EXAM", "COUNTER">>, <<"CROSS_EXAM", "SYNTHESIS">>,
               <<"COUNTER", "SYNTHESIS">>, <<"SYNTHESIS", "DONE">>}
              \cup FailureSteps]_vars

\* C5 as amended: run_debate goes INIT, STANCE, CROSS_EXAM, SYNTHESIS, DONE;
\* run_full_debate goes INIT, STANCE, zero or more COUNTER rounds, SYNTHESIS,
\* DONE and has no CROSS_EXAM phase; in both, no call of a later round is made
\* before every call of the round before has completed, no phase is
\* re-entered and nothing follows SYNTHESIS.
C5_PhaseOrderAmended ==
    /\ []CallsInRoundOrder
    /\ [][Phase' # Phase =>
            <<Phase, Phase'>> \in
                (IF sys = "engine"
                 THEN {<<"INIT", "STANCE">>, <<"STANCE", "CROSS_EXAM">>,
                       <<"CROSS_EXAM", "SYNTHESIS">>, <<"SYNTHESIS", "DONE">>}
                 ELSE {<<"INIT", "STANCE">>, <<"STANCE", "COUNTER">>,
                       <<"STANCE", "SYNTHESIS">>, <<"COUNTER", "SYNTHESIS">>,
                       <<"SYNTHESIS", "DONE">>})
                \cup FailureSteps]_vars

\* C5 witness: a completed run_full_debate that went through a counter round.
C5_Witness ==
    /\ pc = "done" /\ sys = "kepler"
    /\ \E i \in 1..Len(calls) : calls[i].agent = "Defense (Counter)"

\* the request log is n rounds of Prosecutor, Defense, Epistemologist and
\* then the one synthesis call
StructuredRounds(n) ==
    /\ Len(calls) = 3 * n + 1
    /\ \A r \in 1..n :
          /\ Produced(calls[3 * r - 2]) = <<"Prosecutor", r>>
          /\ Produced(calls[3 * r - 1]) = <<"Defense", r>>
          /\ Produced(calls[3 * r]) = <<"Epistemologist", r>>
    /\ calls[Len(calls)].agent = "Jury Foreman"

FixedRun == sys = "kepler" /\ num_rounds_arg # <<>>

TranscriptRounds ==
    Cardinality({i \in 1..Len(result[1].debate_transcript) :
                    result[1].debate_transcript[i].agent = "Epistemologist"})

RandomRun == sys = "kepler" /\ num_rounds_arg = <<>>

\* C7: under the random policy the round count is 2, 3 or 4 from the start of
\* the run on, never changes after the start, and is the number of rounds
\* the returned transcript records.
C7_RandomRoundsFixed ==
    /\ [](RandomRun /\ pc # "init" =>
             /\ num_rounds \in {2, 3, 4}
             /\ (pc = "done" => TranscriptRounds = num_rounds))
    /\ [][pc # "init" => num_rounds' = num_rounds]_vars

\* C7 witness: a completed run whose drawn round count was 4.
C7_Witness ==
    RandomRun /\ pc = "done" /\ num_rounds = 4 /\ TranscriptRounds = 4

\* the round-1 calls of the request log
StanceCalls == {i \in 1..Len(calls) : calls[i].round = 1}

\* C8: in DebateEngine's round 1 every call's context holds no reply of any
\* role (the same context for all), no role is called twice, and once the
\* round is over every role has been called once and has one stance.
C8_StanceRoundIndependent ==
    sys = "engine" =>
        /\ \A i \in StanceCalls : calls[i].reads = {}
        /\ \A i, j \in StanceCalls : calls[i].agent = calls[j].agent => i = j
        /\ pc \in {"round2", "round3", "done"} =>
              /\ {calls[i].agent : i \in StanceCalls} = AnalyticRoles
              /\ Len(stances) = Cardinality(AnalyticRoles)
              /\ {stances[k].agent : k \in 1..Len(stances)} = AnalyticRoles

\* C8 witness: round 1 is over with three stances.
C8_Witness ==
    sys = "engine" /\ pc = "round2" /\ Len(stances) = 3 /\ Len(calls) = 3

\* C9: the context of every round-2 call of DebateEngine holds round-1
\* replies only, those of all the other roles among them, and no round-2
\* reply, wherever the role stands in the calling order.
C9_CrossExamSeesStancesOnly ==
    sys = "engine" =>
        \A i \in 1..Len(calls) : calls[i].round = 2 =>
            /\ \A id \in calls[i].reads : id[2] = 1
            /\ \A role \in AnalyticRoles \ {calls[i].agent} :
                  <<role, 1>> \in calls[i].reads

\* C9 witness: the last role's round-2 call was made after two others had
\* stored their exchanges.
C9_Witness ==
    /\ sys = "engine" /\ pc = "round3"
    /\ Len(exchanges) >= 2
    /\ exchanges[1].agent = agents[1]
    /\ calls[6].agent = agents[3]

\* C10 as claimed: in run_full_debate the context of every analytic call
\* holds replies of earlier rounds only.
C10_OnlyEarlierRounds ==
    sys \in Orchestrators =>
        \A i \in AnalyticCalls : \A id \in calls[i].reads : id[2] < calls[i].round

\* C10 as amended: the context of every analytic call holds only replies of
\* calls completed before it; of its own round the Prosecutor's holds none,
\* the Defense's holds the Prosecutor's and the Epistemologist's holds the
\* Prosecutor's and the Defense's.
C10_OnlyCompletedCalls ==
    sys \in Orchestrators =>
        \A i \in AnalyticCalls :
            LET c == calls[i]
                same == {id \in c.reads : id[2] = c.round}
            IN  /\ \A id \in c.reads :
                      \E j \in 1..(i - 1) :
                          Produced(calls[j]) = id /\ calls[j].outcome = "ok"
                /\ same = CASE RoleOf(c.agent) = "Prosecutor" -> {}
                            [] RoleOf(c.agent) = "Defense" ->
                                   {<<"Prosecutor", c.round>>}
                            [] OTHER -> {<<"Prosecutor", c.round>>,
                                         <<"Defense", c.round>>}

\* C10 witness: a counter round's Defense call has been made.
C10_Witness ==
    /\ sys = "kepler"
    /\ \E i \in 1..Len(calls) :
          /\ calls[i].agent = "Defense (Counter)"
          /\ <<"Prosecutor", calls[i].round>> \in calls[i].reads

----------------------------------------------------------------------------
(* C11..C20 *)

\* the outputs of the run recorded before call i: one per completed call of
\* run_full_debate, the stances and exchanges of run_debate
RecordsBefore(i) ==
    IF sys = "engine"
    THEN {<<stances[k].agent, 1>> : k \in 1..Len(stances)}
         \cup {<<exchanges[k].agent, 2>> : k \in 1..Len(exchanges)}
    ELSE {Produced(calls[j]) : j \in 1..(i - 1)}

\* C11: the synthesizer's context holds every record produced earlier in the
\* run, of all roles and all rounds; with more than one structured round the
\* earlier rounds' outputs are there too, not only each role's latest.
C11_SynthesizerSeesAll ==
    \A i \in SynthCalls : RecordsBefore(i) \subseteq calls[i].reads

\* the ids of the arguments a role gave in round 1 of a transcript
ArgumentsOf(transcript, agent) ==
    LET own == {k \in 1..Len(transcript.round1_stances) :
                   transcript.round1_stances[k].agent = agent}
    IN  UNION {{transcript.round1_stances[k].arguments[a].id :
                   a \in 1..Len(transcript.round1_stances[k].arguments)} :
               k \in own}

\* C12: in every transcript run_debate returns, each cross-examination
\* record's target_argument_id is the id of an argument its target_agent gave
\* in round 1; a reply whose reference does not resolve is never stored.
C12_TargetsResolve ==
    (sys = "engine" /\ Returned) =>
        \A k \in 1..Len(result[1].round2_exchanges) :
            LET e == result[1].round2_exchanges[k]
            IN  e.target_argument_id \in ArgumentsOf(result[1], e.target_agent)

\* the exceptions a reply that fails validation raises
ValidationErrors == {"JSONDecodeError", "KeyError", "ValueError", "AttributeError"}

\* the last two requests are the same role call, made twice
LastCallReissued ==
    /\ Len(calls) >= 2
    /\ calls[Len(calls)].agent = calls[Len(calls) - 1].agent
    /\ calls[Len(calls)].round = calls[Len(calls) - 1].round

\* C13: a reply that fails validation has the same role call issued once
\* more; the run fails on an invalid reply only when that reply answered the
\* re-issued call.
C13_ReissuedOnce ==
    (pc = "failed" /\ error \in ValidationErrors) => LastCallReissued

\* the requests made for the role invocation that request i belongs to
Attempts(i) ==
    {j \in 1..Len(calls) :
        calls[j].agent = calls[i].agent /\ calls[j].round = calls[i].round}

\* C14: a call that fails with a transport or service error is retried; the
\* run fails on such an error only after more than one attempt of that role
\* invocation, so one transient failure does not fail the run.
C14_TransientRetried ==
    (pc = "failed" /\ error = "APIError") =>
        Cardinality(Attempts(Len(calls))) >= 2

\* C15: once a role invocation has failed the run returns no result, makes no
\* further call (the synthesizer's included) and stays failed; a failed
\* request is the last of the request log.
C15_FailureEndsRun ==
    /\ [](error # "none" => pc = "failed" /\ ~Returned)
    /\ [](\A i \in 1..Len(calls) :
             calls[i].outcome # "ok" => i = Len(calls) /\ pc = "failed")
    /\ [][pc = "failed" => pc' = "failed" /\ calls' = calls /\ result' = result]_vars

\* C15 witness: a run_full_debate that failed in a counter round, before the
\* Jury Foreman was called.
C15_Witness ==
    /\ sys = "kepler" /\ pc = "failed" /\ ~Returned
    /\ calls[Len(calls)].agent = "Defense (Counter)"
    /\ SynthCalls = {}

\* debate_history grows by exactly one record, put at its end
AppendsOne ==
    /\ Len(debate_history') = Len(debate_history) + 1
    /\ SubSeq(debate_history', 1, Len(debate_history)) = debate_history

\* a step of run_full_debate that sends a request
CallStep == sys \in Orchestrators /\ calls' # calls

\* C17 as claimed: in run_full_debate every gateway call appends exactly one
\* record at the end of debate_history, and no step after the start of the
\* run removes, reorders or modifies a record.
C17_EachCallAppendsOne ==
    [][/\ CallStep => AppendsOne
       /\ (sys \in Orchestrators /\ pc # "init" /\ ~CallStep) =>
              debate_history' = debate_history]_vars

\* C17 as amended: every gateway call that returns a response appends exactly
\* one record, the raw response under the agent's name, whether it decodes or
\* not; a call that raises before a response arrives appends nothing; no step
\* after the start of the run removes, reorders or modifies a record.
C17_EachResponseAppendsOne ==
    [][/\ (CallStep /\ calls'[Len(calls')].outcome # "api_error") =>
              /\ AppendsOne
              /\ debate_history'[Len(debate_history')].agent =
                     calls'[Len(calls')].agent
       /\ (CallStep /\ calls'[Len(calls')].outcome = "api_error") =>
              debate_history' = debate_history
       /\ (sys \in Orchestrators /\ pc # "init" /\ ~CallStep) =>
              debate_history' = debate_history]_vars

\* C17 witness: a run whose fifth call returned a response that does not
\* decode, kept as the fifth record.
C17_Witness ==
    /\ sys = "kepler" /\ pc = "failed"
    /\ Len(calls) = 5 /\ calls[5].outcome = "undecodable"
    /\ Len(debate_history) = 5
    /\ ~Decodable(debate_history[5].response)

\* the transcript of the DebateResult caller t was returned, as it reads now
Transcript(t) == lists[runs[t].result[1].debate_transcript]

\* the records of caller t's own calls, in call order
OwnRecords(t) ==
    LET answered == SelectSeq(runs[t].made, LAMBDA c : c.outcome # "api_error")
    IN  [k \in 1..Len(answered) |->
            HistoryRecord(t, answered[k].agent, answered[k].round,
                          answered[k].outcome)]

\* C16: two run_full_debate calls interleaved on one DebateOrchestrator have
\* independent transcripts: each returned transcript holds exactly the
\* records of its own run's calls, in call order, and none of the other run.
C16_IndependentTranscripts ==
    schedule = "threads" =>
        \A t \in Callers :
            runs[t].result # <<>> => Transcript(t) = OwnRecords(t)

Finished(t) == runs[t].pc \in {"done", "failed"}

\* the role sequence and round numbering of caller t's run
RoleSeq(t) ==
    [k \in 1..Len(runs[t].made) |-> <<runs[t].made[k].agent, runs[t].made[k].round>>]

\* the same for the transcript caller t was returned
TranscriptShape(t) ==
    [k \in 1..Len(Transcript(t)) |->
        <<Transcript(t)[k].agent, Transcript(t)[k].response.id>>]

\* the two runs were served the same sequence of responses, as far as each
\* consumed it
SameResponses ==
    \A k \in 1..Len(runs[1].made) :
        k <= Len(runs[2].made) =>
            runs[1].made[k].outcome = runs[2].made[k].outcome

\* both runs are over and have the same role sequence and round numbering,
\* in their calls and in the transcripts returned
SameShape ==
    /\ RoleSeq(1) = RoleSeq(2)
    /\ runs[1].pc = runs[2].pc
    /\ runs[1].pc = "done" => TranscriptShape(1) = TranscriptShape(2)

Replayed == schedule = "batch" /\ Finished(1) /\ Finished(2) /\ SameResponses

\* C18 as claimed: two runs with the same round policy, fixed or random, and
\* the same sequence of responses have identical round numbering and role
\* sequence.
C18_SamePolicySameShape ==
    (Replayed /\ runs[1].arg = runs[2].arg) => SameShape

\* C18 as amended: two runs, one after the other, with the same responses
\* have identical round numbering and role sequence when they were passed the
\* same num_rounds or, under the random policy, drew the same round count.
C18_SameRoundsSameShape ==
    (/\ Replayed
     /\ \/ runs[1].arg = runs[2].arg /\ runs[1].arg # <<>>
        \/ runs[1].num_rounds = runs[2].num_rounds) => SameShape

\* C18 witness: two completed runs under the random policy that both drew
\* three rounds.
C18_Witness ==
    /\ Replayed
    /\ runs[1].arg = <<>> /\ runs[2].arg = <<>>
    /\ runs[1].num_rounds = 3 /\ runs[2].num_rounds = 3
    /\ runs[1].pc = "done" /\ runs[2].pc = "done"
    /\ Len(RoleSeq(2)) = 10

\* C19: a DebateResult returned by run_full_debate never changes: no later
\* run_full_debate and no direct call of a role method on the same
\* orchestrator changes its debate_transcript or any other field.
C19_ResultImmutable ==
    [][\A t \in Callers :
          runs[t].result # <<>> =>
              /\ runs'[t].result = runs[t].result
              /\ lists'[runs[t].result[1].debate_transcript] = Transcript(t)]_vars

\* the synthesizer's decoded reply
SynthReply == verdict_reply[1]

\* C20 as claimed: the final verdict and confidence of a result are exactly
\* the verdict and the confidence of the synthesizer's reply.
C20_ExactlySynthesizerValues ==
    Returned =>
        IF sys = "engine"
        THEN /\ FinalVerdict = SynthReply.final_verdict
             /\ FinalConfidence = SynthReply.confidence
        ELSE /\ "verdict" \in DOMAIN SynthReply
             /\ "confidence" \in DOMAIN SynthReply
             /\ FinalVerdict = Lower(SynthReply.verdict)
             /\ FinalConfidence = SynthReply.confidence

\* C20 as amended: the final verdict and confidence are determined by the
\* synthesizer's reply alone.  run_debate copies both; run_full_debate takes
\* the reply's verdict when it is faithful or mutated in any letter case and
\* AMBIGUOUS otherwise, and the reply's confidence, or 0 when it has none.
C20_FromSynthesizerAlone ==
    Returned =>
        IF sys = "engine"
        THEN /\ FinalVerdict = SynthReply.final_verdict
             /\ FinalConfidence = SynthReply.confidence
        ELSE /\ FinalVerdict =
                   IF /\ "verdict" \in DOMAIN SynthReply
                      /\ Lower(SynthReply.verdict) \in {"faithful", "mutated"}
                   THEN Lower(SynthReply.verdict)
                   ELSE "ambiguous"
             /\ FinalConfidence =
                   IF "confidence" \in DOMAIN SynthReply
                   THEN SynthReply.confidence
                   ELSE JNum(0)

\* C20 witness: all three round-1 stances are "mutated" with confidence 1.5
\* and the result is the moderator's "faithful" with confidence 0.5.
C20_Witness ==
    /\ sys = "engine" /\ Returned
    /\ \A k \in 1..Len(stances) :
          stances[k].verdict = "mutated" /\ stances[k].confidence = JNum(15)
    /\ FinalVerdict = "faithful" /\ FinalConfidence = JNum(5)

----------------------------------------------------------------------------
(* C21..C30 *)

\* the request log of a whole run_debate: each role's STANCE call, each
\* role's CROSS_EXAM call, the moderator's call
MinimumDebate ==
    /\ Len(calls) = 7
    /\ <<calls[1].agent, calls[2].agent, calls[3].agent>> =
           <<"FACT_CHECKER", "SKEPTIC", "CONTEXTUALIST">>
    /\ <<calls[4].agent, calls[5].agent, calls[6].agent>> =
           <<"FACT_CHECKER", "SKEPTIC", "CONTEXTUALIST">>
    /\ \A i \in 1..3 : calls[i].round = 1 /\ calls[i + 3].round = 2
    /\ calls[7].agent = "MODERATOR"
    /\ calls[7].round = 3

\* C21: a completed run_debate made exactly two structured rounds, one
\* STANCE and one CROSS_EXAM call per analytic role, then one synthesis
\* call, and makes no call after it.
C21_TwoRoundsThenSynthesis ==
    /\ []((sys = "engine" /\ pc = "done") => MinimumDebate)
    /\ [][(sys = "engine" /\ pc = "done") => calls' = calls]_vars

\* C21 witness: a completed run_debate.
C21_Witness ==
    sys = "engine" /\ pc = "done" /\ Returned /\ Len(calls) = 7

\* a step of run_debate that sends a round-1 request
StanceStep == sys = "engine" /\ pc = "round1" /\ calls' # calls

C23_AllRunsEveryCase ==
    (program = "main.py" /\ opt_all /\ dpc = "returned") =>
        /\ Len(outputs) = data_len
        /\ \A i \in 1..data_len : outputs[i].id = i - 1

\* the calls of round 2
CrossExamCalls == {i \in 1..Len(calls) : sys = "engine" /\ calls[i].round = 2}

\* the round-1 stance record of a role
StanceOf(agent) == stances[CHOOSE i \in 1..Len(stances) : stances[i].agent = agent]

\* C24: the context of a role's CROSS_EXAM call holds the role's own round-1
\* stance (verdict, confidence, arguments) and, to respond to, every argument
\* of every other role's round-1 stance under its id, and none of its own.
C24_CrossExamContext ==
    \A i \in CrossExamCalls :
        LET me == calls[i].agent
            c == calls[i].context
        IN  /\ c.own_stance.verdict = StanceOf(me).verdict
            /\ c.own_stance.confidence = StanceOf(me).confidence
            /\ c.own_stance.arguments = StanceOf(me).arguments
            /\ \A j \in 1..Len(stances) :
                  stances[j].agent # me =>
                     \A a \in 1..Len(stances[j].arguments) :
                        \E k \in 1..Len(c.other_arguments) :
                           /\ c.other_arguments[k].agent = stances[j].agent
                           /\ \E b \in 1..Len(c.other_arguments[k].arguments) :
                                 c.other_arguments[k].arguments[b].id =
                                    stances[j].arguments[a].id
            /\ \A k \in 1..Len(c.other_arguments) :
                  c.other_arguments[k].agent # me

\* a cross-examination call by a role with two arguments of its own, with
\* another role's arguments to respond to
C24_Witness ==
    \E i \in CrossExamCalls :
        /\ Len(calls[i].context.own_stance.arguments) = 2
        /\ \E k \in 1..Len(calls[i].context.other_arguments) :
              Len(calls[i].context.other_arguments[k].arguments) > 0

\* C25: every cross-examination record stored in a transcript has an action
\* in {attack, concede}; a response with another action is not stored.
C25_ActionsAttackOrConcede ==
    (sys = "engine" /\ pc = "done") =>
        \A k \in 1..Len(result[1].round2_exchanges) :
            result[1].round2_exchanges[k].action \in {"attack", "concede"}

\* the round count run_full_debate effectively runs
EffectiveRounds == IF num_rounds < 1 THEN 1 ELSE num_rounds

\* Prosecutor, Defense, Epistemologist, then n - 1 times Prosecutor (Counter),
\* Defense (Counter), Epistemologist, then Jury Foreman
ExpectedRoles(n) ==
    [k \in 1..(3 * n + 1) |->
        IF k = 3 * n + 1 THEN "Jury Foreman"
        ELSE IF k <= 3 THEN <<"Prosecutor", "Defense", "Epistemologist">>[k]
        ELSE <<"Prosecutor (Counter)", "Defense (Counter)",
               "Epistemologist">>[((k - 1) % 3) + 1]]

\* the agent names of the records of a transcript
TranscriptRoles(transcript) ==
    [k \in 1..Len(transcript) |-> transcript[k].agent]

\* C26: a completed run_full_debate with effective round count N has made
\* exactly 3N+1 gateway calls and makes no more; its debate_transcript has the
\* 3N+1 records Prosecutor, Defense, Epistemologist, N-1 times Prosecutor
\* (Counter), Defense (Counter), Epistemologist, then Jury Foreman.
C26_CallsAndTranscriptShape ==
    /\ []((sys \in Orchestrators /\ pc = "done") =>
            /\ Len(calls) = 3 * EffectiveRounds + 1
            /\ TranscriptRoles(result[1].debate_transcript) =
                  ExpectedRoles(EffectiveRounds))
    /\ [][(sys \in Orchestrators /\ pc = "done") => calls' = calls]_vars

\* a completed run of three rounds, two of them counter rounds
C26_Witness ==
    /\ sys = "kepler"
    /\ pc = "done"
    /\ EffectiveRounds = 3
    /\ Len(result[1].debate_transcript) = 10

\* the calls of round 3
ModeratorCalls == {i \in 1..Len(calls) : sys = "engine" /\ calls[i].round = 3}

\* the verdict and confidence of each stance record, in order
Positions(records) ==
    [k \in 1..Len(records) |->
        [agent |-> records[k].agent, verdict |-> records[k].verdict,
         confidence |-> records[k].confidence]]

\* the one reply of Round2Replies that declares a change (to "mutated") is
\* the one whose response targets argument ZZ9
DeclaredChange(agent) ==
    \E k \in 1..Len(exchanges) :
        exchanges[k].agent = agent /\ exchanges[k].target_argument_id = "ZZ9"

\* C27: a stance change declared in round 2 is recorded nowhere: round 2 (and
\* round 3) leave the round-1 stance records as they are, and the moderator's
\* context and the returned transcript carry each role's round-1 verdict and
\* confidence; no stored record has a stance_changed or new_verdict field.
C27_StanceChangeNotRecorded ==
    /\ [](sys = "engine" =>
            /\ \A i \in ModeratorCalls :
                  Positions(calls[i].context.round1_summary) = Positions(stances)
            /\ \A k \in 1..Len(exchanges) :
                  DOMAIN exchanges[k] \cap {"stance_changed", "new_verdict"} = {}
            /\ pc = "done" =>
                  /\ result[1].round1_stances = stances
                  /\ result[1].round2_exchanges = exchanges)
    /\ [][(sys = "engine" /\ pc \in {"round2", "round3"}) =>
             stances' = stances]_vars

\* a completed debate in which a role that judged "faithful" in round 1
\* declared a change to "mutated" in round 2
C27_Witness ==
    /\ sys = "engine"
    /\ pc = "done"
    /\ \E k \in 1..Len(stances) :
          /\ stances[k].verdict = "faithful"
          /\ DeclaredChange(stances[k].agent)
          /\ result[1].round1_stances[k].verdict = "faithful"

\* C28: _call_agent appends the raw response to debate_history before it
\* decodes it: when decoding fails the record of the failed call is the last
\* of debate_history and the error ends the run; when the service call itself
\* fails nothing is appended.
C28_AppendBeforeDecode ==
    [][CallStep =>
          LET c == calls'[Len(calls')] IN
          /\ c.outcome = "undecodable" =>
                /\ AppendsOne
                /\ debate_history'[Len(debate_history')] =
                      [agent |-> c.agent, response |-> Garbage]
                /\ pc' = "failed"
                /\ error' = ErrorOf("undecodable")
          /\ c.outcome = "api_error" =>
                /\ debate_history' = debate_history
                /\ pc' = "failed"
                /\ error' = ErrorOf("api_error")]_vars

\* a run of julia_changes' orchestrator ended by a Defense response that does
\* not decode, which is the second record of debate_history
C28_Witness ==
    /\ sys = "julia"
    /\ pc = "failed"
    /\ Len(calls) = 2
    /\ calls[2].outcome = "undecodable"
    /\ debate_history[Len(debate_history)] = [agent |-> "Defense", response |-> Garbage]

\* C29: the prosecutor_response, defense_response and epistemologist_response
\* of a DebateResult are built from the last round's replies, the same three
\* the Jury Foreman was passed, and not from round 1 when more rounds ran.
C29_ResponsesFromLastRound ==
    (sys \in Orchestrators /\ pc = "done") =>
        LET r == result[1] IN
        /\ r.prosecutor_response.source = <<"Prosecutor", EffectiveRounds>>
        /\ r.defense_response.source = <<"Defense", EffectiveRounds>>
        /\ r.epistemologist_response.source = <<"Epistemologist", EffectiveRounds>>
        /\ calls[Len(calls)].agent = "Jury Foreman"
        /\ calls[Len(calls)].reads =
              {r.prosecutor_response.source, r.defense_response.source,
               r.epistemologist_response.source}

\* a result of a run of two rounds, built from the replies of round 2
C29_Witness ==
    /\ sys = "kepler"
    /\ pc = "done"
    /\ EffectiveRounds = 2
    /\ result[1].prosecutor_response.source = <<"Prosecutor", 2>>
    /\ result[1].defense_response.source = <<"Defense", 2>>

\* C30: in the data save_all_transcripts writes, summary.faithful +
\* summary.mutated + summary.uncertain = total_cases = the number of entries
\* of debates, for any list of transcripts.
C30_SummaryAddsUp ==
    \A k \in 1..Len(saved) :
        /\ saved[k].summary.faithful + saved[k].summary.mutated
              + saved[k].summary.uncertain = saved[k].total_cases
        /\ saved[k].total_cases = Len(saved[k].debates)
        /\ saved[k].total_cases = Len(outputs)

\* a file of three transcripts, one of them with the verdict "uncertain"
C30_Witness ==
    /\ program = "run_debate.py"
    /\ dpc = "returned"
    /\ Len(saved) = 1
    /\ saved[1].total_cases = 3
    /\ saved[1].summary.uncertain = 1
    /\ saved[1].summary.mutated = 1

====
